---- MODULE Spec2Model ----
(***************************************************************************)
(* The inline PDF viewer (src/src/components/PdfInlineViewer.jsx) together *)
(* with the part of the Home page that owns its source URL and its         *)
(* persistence callback (src/src/pages/Home.jsx).                          *)
(*                                                                         *)
(* React state is modelled by one variable per useState cell; a state      *)
(* update queued by a handler is applied to the variable at once (the      *)
(* value the next render sees).  Effects are modelled by their closures:   *)
(* every run of an effect owns a `cancelled` flag, and every asynchronous  *)
(* function it started is a record that lives until its promise settles.   *)
(* A click is a discrete event: its state update, the commit and the       *)
(* effects of that commit are one step.  A state update made by an effect  *)
(* body or a promise callback is rendered by a later task: needCommit      *)
(* marks that the effects of that render have not run yet, and only        *)
(* promise settlements can happen before they do.                          *)
(*                                                                         *)
(* Scales are in tenths (1.2 is 12).  Normalized coordinates are in        *)
(* hundredths (0.5 is 50) and page positions in hundredths of a point, so  *)
(* that the arithmetic of the save pipeline is exact.                      *)
(***************************************************************************)
EXTENDS Integers, Sequences, FiniteSets, TLC

\* ---- bounds of the model
MaxPages == 2           \* pages of a document
MaxVersion == 2         \* versions of the source one viewer sees
MaxAnnotations == 2     \* pending annotations
MaxLines == 2           \* lines of an annotation text

\* ---- program constants (PdfInlineViewer.jsx:8-13, 52, 64)
MIN_SCALE == 8
MAX_SCALE == 24
SCALE_STEP == 2
DEFAULT_SCALE == 12
MIN_FONT_SIZE == 8
MAX_FONT_SIZE == 48
DEFAULT_FONT_SIZE == 14

RenderSlots == {1, 2}       \* renderPage() calls that can be pending at once
ThumbSlots == {1, 2}        \* renderAllThumbs() calls that can be pending at once
SaveSlots == {1, 2}         \* saveEditedPdf() calls that can be pending at once
Coords == {0, 50, 100}      \* where a click can fall on the layer, top to bottom
PageHeights == {40}         \* page.getSize().height of the pages of a fetched file
NoTask == [phase |-> "free"]
\* lines 53, 81: the empty thumbnail cache; 0 stands for `undefined`
NoThumbs == [num \in 1 .. MaxPages |-> 0]

VARIABLES
    \* Home.jsx
    activeDoc,              \* id of the active document, 0 when the pane is closed
    activeDocFileVersion,   \* the ?v= of the stream URL the viewer gets as src, a
                            \* Date.now(): see Now
    activeDocSaveLoading,
    activeDocSaveError,
    \* PdfInlineViewer.jsx state cells
    pdfDoc,                 \* 0: null, else the version of the source it was loaded from
    numPages, pageNum, scale, loadingDoc, loadingPage, error,
    canvasSize,             \* 0: {width: 0, height: 0}, else the scale of the viewport
                            \* the stage was sized to (line 195)
    overviewOpen, thumbnails, thumbsLoading,
    editMode, annotations, editorError,
    \* load effect
    loadSrc,                \* version the current run of the load effect was started for
    loadState,              \* "none" | "pending" | "resolved" | "rejected"
    oldLoads,               \* loading tasks of cleaned-up runs whose promise is pending
    handles,                \* loading tasks obtained (line 91) and not destroyed since
    \* render effect
    renders,                \* slot -> the renderPage() call of one run of the effect
    renderEff,              \* slot of the run whose cleanup is registered, 0: none or
                            \* a run whose call has returned (its cleanup does nothing)
    renderTaskRef,          \* slot whose render task renderTaskRef.current holds, 0: null
                            \* or a task that has settled (its cancel() does nothing)
    renderDeps,             \* <<pdfDoc, pageNum, scale>> the effect last ran with
    surface,                \* the canvas: the page written last and how far ("none",
                            \* "cleared", "erased", "painted")
    \* thumbnail effect
    thumbRuns,              \* slot -> the renderAllThumbs() call of one run of the effect
    thumbEff,               \* slot of the run whose cleanup is registered, 0: none
    thumbDeps,              \* <<overviewOpen, pdfDoc, totalPages>> the effect last ran with
    \* save pipeline
    saves,                  \* slot -> a pending saveEditedPdf() call: the annotations
                            \* of its closure and, once stamped, the page count and
                            \* page height of the file it fetched and the number of
                            \* drawText calls it made
    needCommit,
    \* lib/workspaces.js
    localStorage,           \* the item of localStorage at WORKSPACES_STORE_KEY
    returned                \* what the last call of loadWorkspaceState or
                            \* persistWorkspaceState was made for and returned

homeVars == <<activeDoc, activeDocFileVersion, activeDocSaveLoading, activeDocSaveError>>
docVars == <<pdfDoc, numPages, loadingDoc>>
navVars == <<pageNum, scale>>
viewVars == <<overviewOpen, thumbnails, thumbsLoading>>
editVars == <<editMode, annotations>>
loadVars == <<loadSrc, loadState, oldLoads, handles>>
renderVars == <<renders, renderEff, renderTaskRef, renderDeps>>
thumbVars == <<thumbRuns, thumbEff, thumbDeps>>
viewerVars == <<homeVars, docVars, navVars, viewVars, editVars, loadVars, renderVars,
                thumbVars, loadingPage, error, canvasSize, editorError, surface, saves,
                needCommit>>
workspaceVars == <<localStorage, returned>>
vars == <<viewerVars, workspaceVars>>

Max(a, b) == IF a >= b THEN a ELSE b
Min(a, b) == IF a <= b THEN a ELSE b

\* line 15
clamp(value, min, max) == Min(Max(value, min), max)

\* line 67
totalPages == IF pdfDoc = 0 THEN 0 ELSE numPages
\* Date.now() of Home.jsx 876 and 998.  Versions are only compared for equality
\* and nothing of an earlier viewer that holds one outlives a mount, so they are
\* counted from the mount: 1 is the version a viewer mounts on.
Now == activeDocFileVersion + 1
\* the viewer is rendered while Home has an active (PDF) document
mounted == activeDoc # 0

FreeSlot(pool, slots) ==
    CHOOSE s \in slots : pool[s] = NoTask /\ \A t \in slots : pool[t] = NoTask => s <= t
HasFree(pool, slots) == \E s \in slots : pool[s] = NoTask
Live(pool, slots) == {s \in slots : pool[s] # NoTask}

\* ---------------------------------------------------------------- closures

\* loadingTask.destroy(): every call still pending works on a destroyed document
DestroyAll(pool, slots) ==
    [s \in slots |-> IF pool[s] = NoTask THEN NoTask ELSE [pool[s] EXCEPT !.destroyed = TRUE]]

\* the component of a pending save has unmounted: its setState does nothing
GoneAll(pool, slots) ==
    [s \in slots |-> IF pool[s] = NoTask THEN NoTask ELSE [pool[s] EXCEPT !.gone = TRUE]]

\* lines 115-118, 222-225: renderTaskRef.current.cancel(); renderTaskRef.current = null
CancelRef(rs, ref) ==
    IF ref = 0 THEN rs ELSE [rs EXCEPT ![ref].tcancel = TRUE]

RenderCleanupKeeps(rs, eff, ref) == rs

\* lines 220-226: cleanup of one run of the render effect
RenderCleanup(rs, eff, ref) ==
    LET flagged == IF eff = 0 THEN rs ELSE [rs EXCEPT ![eff].cancelled = TRUE]
    IN  CancelRef(flagged, ref)

ThumbCleanupKeeps(ts, eff) == ts

\* lines 169-171: cleanup of one run of the thumbnail effect
ThumbCleanup(ts, eff) ==
    IF eff = 0 THEN ts ELSE [ts EXCEPT ![eff].cancelled = TRUE]

GetPageGuardNever(cancelled) == FALSE

\* line 182: `if (cancelled) return` after getPage
GetPageGuard(cancelled) == cancelled

\* lines 208-212: which rejections of renderPage set the error message
RenderCatchReports(cancelled, isCancelException) ==
    ~isCancelException /\ ~cancelled

\* line 214: `finally { if (!cancelled) setLoadingPage(false) }`
RenderFinallyClears(cancelled) == ~cancelled

LoadThenAppliesAlways(cancelled) == TRUE

\* lines 94-97, 102: `.then` / `.catch` of the loading task
LoadThenApplies(cancelled) == ~cancelled
LoadCatchApplies(cancelled) == ~cancelled

\* lines 174-227: the render effect of a commit whose deps are <<doc, page, sc>>:
\* cleanup of the previous run when the deps changed, then renderPage()
RunRenderEffect(doc, page, sc) ==
    IF <<doc, page, sc>> = renderDeps
    THEN UNCHANGED <<renderVars, loadingPage>>
    ELSE LET rel == RenderCleanup(renders, renderEff, renderTaskRef)
         IN  /\ renderDeps' = <<doc, page, sc>>
             /\ renderTaskRef' = 0
             /\ IF doc = 0
                THEN /\ renders' = rel
                     /\ renderEff' = 0
                     /\ UNCHANGED loadingPage
                ELSE /\ HasFree(rel, RenderSlots)
                     /\ LET s == FreeSlot(rel, RenderSlots)
                        IN  /\ renders' = [rel EXCEPT ![s] =
                                  [phase |-> "getPage", page |-> page, cancelled |-> FALSE,
                                   tcancel |-> FALSE, destroyed |-> FALSE]]
                            /\ renderEff' = s
                     /\ loadingPage' = TRUE

\* ---------------------------------------------------------------- load effect

NoSurface == [page |-> 0, st |-> "none"]

ResetCellsKeepsPage ==
    /\ pdfDoc' = 0
    /\ numPages' = 0
    /\ pageNum' = pageNum
    /\ scale' = DEFAULT_SCALE
    /\ overviewOpen' = FALSE
    /\ thumbnails' = NoThumbs
    /\ thumbsLoading' = FALSE
    /\ canvasSize' = 0
    /\ editorError' = ""
    /\ editMode' = FALSE
    /\ annotations' = << >>

\* lines 77-88: what the body of the load effect resets, besides error and
\* loadingDoc (loadingPage is not among them)
ResetCells ==
    /\ pdfDoc' = 0
    /\ numPages' = 0
    /\ pageNum' = 1
    /\ scale' = DEFAULT_SCALE
    /\ overviewOpen' = FALSE
    /\ thumbnails' = NoThumbs
    /\ thumbsLoading' = FALSE
    /\ canvasSize' = 0
    /\ editorError' = ""
    /\ editMode' = FALSE
    /\ annotations' = << >>

\* lines 90-111: getDocument(src) returns a loading task, or throws on the spot
StartLoad(v, throws) ==
    /\ loadSrc' = v
    /\ IF throws
       THEN loadState' = "rejected" /\ error' = "load" /\ loadingDoc' = FALSE
       ELSE loadState' = "pending" /\ error' = "" /\ loadingDoc' = TRUE

\* line 91: the loading task getDocument(src) returns, unless it throws
Obtained(v, throws) == IF throws THEN {} ELSE {v}

TaskDestroyNothing(hs, task) == hs

\* lines 95, 119: doc.destroy() / loadingTask.destroy() (a document and its loading
\* task share one transport: destroying either releases both)
TaskDestroy(hs, task) == hs \ {task}

\* lines 113-120: cleanup of the current run of the load effect
LoadCleanup ==
    oldLoads' = oldLoads \cup (IF loadState = "pending" THEN {loadSrc} ELSE {})

\* the src prop has changed to version v: cleanup of the load effect, then its body
LoadEffect(v, throws) ==
    /\ LoadCleanup
    /\ handles' = TaskDestroy(handles, loadSrc) \cup Obtained(v, throws)
    /\ renders' = DestroyAll(CancelRef(renders, renderTaskRef), RenderSlots)
    /\ renderTaskRef' = 0
    /\ ResetCells
    /\ StartLoad(v, throws)
    /\ thumbRuns' = DestroyAll(thumbRuns, ThumbSlots)
    /\ needCommit' = TRUE
    /\ UNCHANGED <<renderEff, renderDeps, thumbEff, thumbDeps, loadingPage, surface>>

\* The viewer unmounts: the cleanups of all its effects run.  Every call of its
\* load, render and thumbnail effects is cancelled by them, has no canvas
\* (canvasRef.current is null) and sets state of a component that is gone: whatever
\* way it settles, it changes nothing, and it is dropped here.  A pending save
\* still reaches the Home page and is kept, marked gone.
UnmountEffects ==
    /\ oldLoads' = {}
    /\ renders' = [s \in RenderSlots |-> NoTask]
    /\ renderEff' = 0
    /\ renderTaskRef' = 0
    /\ thumbRuns' = [s \in ThumbSlots |-> NoTask]
    /\ thumbEff' = 0
    /\ saves' = GoneAll(saves, SaveSlots)

\* the state of a viewer that has just been created (lines 50-65), also the value
\* the cells are given while no viewer exists
FreshCells ==
    /\ ResetCells
    /\ loadingPage' = FALSE
    /\ renderDeps' = <<0, 1, DEFAULT_SCALE>>
    /\ thumbDeps' = <<FALSE, 0, 0>>
    /\ surface' = NoSurface
    /\ needCommit' = FALSE

\* Home.jsx 851-883 openDocumentInPane: the pane is emptied (a viewer that was open
\* unmounts), the record is fetched, and a viewer mounts on the new stream URL
OpenDocument(d, throws) ==
    /\ ~needCommit
    /\ activeDoc' = d
    /\ activeDocFileVersion' = 1
    /\ activeDocSaveError' = ""
    /\ UNCHANGED <<activeDocSaveLoading, workspaceVars>>
    /\ UnmountEffects
    /\ FreshCells
    /\ handles' = TaskDestroy(handles, loadSrc) \cup Obtained(1, throws)
    /\ StartLoad(1, throws)

\* Home.jsx 1037-1045 closeDocumentPane
CloseDocumentPane ==
    /\ ~needCommit
    /\ mounted
    /\ activeDoc' = 0
    /\ activeDocFileVersion' = 0
    /\ activeDocSaveError' = ""
    /\ UNCHANGED <<activeDocSaveLoading, workspaceVars>>
    /\ UnmountEffects
    /\ FreshCells
    /\ handles' = TaskDestroy(handles, loadSrc)
    /\ loadSrc' = 0 /\ loadState' = "none" /\ error' = "" /\ loadingDoc' = TRUE

PendingLoads == oldLoads \cup (IF loadState = "pending" THEN {loadSrc} ELSE {})

\* lines 93-100: loadingTask.promise resolves with a document of np pages
LoadResolved(l, np) ==
    /\ l \in PendingLoads
    /\ IF l \in oldLoads
       THEN oldLoads' = oldLoads \ {l} /\ UNCHANGED loadState
       ELSE loadState' = "resolved" /\ UNCHANGED oldLoads
    /\ IF LoadThenApplies(l \in oldLoads)
       THEN /\ pdfDoc' = l /\ numPages' = np /\ loadingDoc' = FALSE /\ needCommit' = TRUE
            /\ UNCHANGED handles
       ELSE /\ handles' = TaskDestroy(handles, l)
            /\ UNCHANGED <<docVars, needCommit>>
    /\ UNCHANGED <<homeVars, navVars, viewVars, editVars, loadSrc, thumbVars, renderVars, loadingPage,
                   error, canvasSize, editorError, surface, saves, workspaceVars>>

\* lines 101-106: loadingTask.promise rejects
LoadRejected(l) ==
    /\ l \in PendingLoads
    /\ IF l \in oldLoads
       THEN oldLoads' = oldLoads \ {l} /\ UNCHANGED loadState
       ELSE loadState' = "rejected" /\ UNCHANGED oldLoads
    /\ IF LoadCatchApplies(l \in oldLoads)
       THEN error' = "load" /\ loadingDoc' = FALSE
       ELSE UNCHANGED <<error, loadingDoc>>
    /\ UNCHANGED <<homeVars, pdfDoc, numPages, navVars, viewVars, editVars, loadSrc, handles, thumbVars,
                   renderVars, loadingPage, canvasSize, editorError, surface, saves,
                   needCommit, workspaceVars>>

\* ---------------------------------------------------------------- render effect

\* renderPage() of slot s has returned; its finally clause has run
Settled(s) ==
    /\ renders' = [renders EXCEPT ![s] = NoTask]
    /\ renderEff' = IF renderEff = s THEN 0 ELSE renderEff
    /\ renderTaskRef' = IF renderTaskRef = s THEN 0 ELSE renderTaskRef
    /\ loadingPage' = IF RenderFinallyClears(renders[s].cancelled)
                      THEN FALSE ELSE loadingPage

\* lines 191-198: the canvas is resized and cleared.  "erased": a frame that had
\* been painted on it is gone; "cleared": nothing had been painted on it yet
Wiped(st) == IF st \in {"painted", "erased"} THEN "erased" ELSE "cleared"

\* lines 181-205: pdfDoc.getPage(pageNum) resolves; the call sizes and clears the
\* canvas and starts the render task, unless its run was cleaned up meanwhile
GetPageResolved(s) ==
    /\ renders[s].phase = "getPage"
    /\ ~renders[s].destroyed
    /\ IF GetPageGuard(renders[s].cancelled)
       THEN /\ Settled(s)
            /\ UNCHANGED <<canvasSize, surface>>
       ELSE /\ canvasSize' = scale
            /\ surface' = [page |-> renders[s].page, st |-> Wiped(surface.st)]
            /\ renderTaskRef' = s
            /\ renders' = [renders EXCEPT ![s].phase = "rendering"]
            /\ UNCHANGED <<renderEff, loadingPage>>
    /\ UNCHANGED <<homeVars, docVars, navVars, viewVars, editVars, loadVars, thumbVars,
                   renderDeps, error, editorError, saves, needCommit, workspaceVars>>

\* pdfDoc.getPage(pageNum) rejects: the page cannot be read, or the document was
\* destroyed under the call ("Transport destroyed")
GetPageRejected(s) ==
    /\ renders[s].phase = "getPage"
    /\ Settled(s)
    /\ error' = IF RenderCatchReports(renders[s].cancelled, FALSE)
                THEN "render" ELSE error
    /\ UNCHANGED <<homeVars, docVars, navVars, viewVars, editVars, loadVars, thumbVars,
                   renderDeps, canvasSize, editorError, surface, saves, needCommit,
                   workspaceVars>>

\* line 206: renderTask.promise resolves, the page is painted
RenderCompleted(s) ==
    /\ renders[s].phase = "rendering"
    /\ ~renders[s].tcancel
    /\ ~renders[s].destroyed
    /\ surface' = [page |-> renders[s].page, st |-> "painted"]
    /\ Settled(s)
    /\ UNCHANGED <<homeVars, docVars, navVars, viewVars, editVars, loadVars, thumbVars,
                   renderDeps, error, canvasSize, editorError, saves, needCommit,
                   workspaceVars>>

\* renderTask.promise rejects with RenderingCancelledException: cancel() was called
\* on the task, or its document was destroyed
RenderCancelled(s) ==
    /\ renders[s].phase = "rendering"
    /\ renders[s].tcancel \/ renders[s].destroyed
    /\ Settled(s)
    /\ error' = IF RenderCatchReports(renders[s].cancelled, TRUE)
                THEN "render" ELSE error
    /\ UNCHANGED <<homeVars, docVars, navVars, viewVars, editVars, loadVars, thumbVars,
                   renderDeps, canvasSize, editorError, surface, saves, needCommit,
                   workspaceVars>>

\* renderTask.promise rejects with a rendering error
RenderFailed(s) ==
    /\ renders[s].phase = "rendering"
    /\ ~renders[s].tcancel
    /\ ~renders[s].destroyed
    /\ Settled(s)
    /\ error' = IF RenderCatchReports(renders[s].cancelled, FALSE)
                THEN "render" ELSE error
    /\ UNCHANGED <<homeVars, docVars, navVars, viewVars, editVars, loadVars, thumbVars,
                   renderDeps, canvasSize, editorError, surface, saves, needCommit,
                   workspaceVars>>

\* ---------------------------------------------------------------- thumbnail effect

\* lines 149-151: the loop of renderAllThumbs runs on from page num to the next await:
\* it returns when the run was cleaned up, skips the pages the thumbnails of its
\* closure have, and ends after page tp.  0: the call has returned, tp + 1: the loop
\* has ended, else the page renderThumbnail is awaited for
RECURSIVE NextThumb(_, _, _, _)
NextThumb(num, tp, snap, cancelled) ==
    IF num > tp THEN tp + 1
    ELSE IF cancelled THEN 0
    ELSE IF snap[num] # 0 THEN NextThumb(num + 1, tp, snap, cancelled)
    ELSE num

\* lines 123-172: the thumbnail effect of a commit whose deps are <<open, doc, tp>>
RunThumbEffect(open, doc, tp) ==
    IF <<open, doc, tp>> = thumbDeps
    THEN UNCHANGED <<thumbVars, thumbsLoading>>
    ELSE LET cleaned == ThumbCleanup(thumbRuns, thumbEff)
         IN  /\ thumbDeps' = <<open, doc, tp>>
             /\ IF ~open \/ doc = 0 \/ tp = 0
                THEN /\ thumbRuns' = cleaned
                     /\ thumbEff' = 0
                     /\ UNCHANGED thumbsLoading
                ELSE LET first == NextThumb(1, tp, thumbnails, FALSE)
                     IN  IF first > tp
                         THEN /\ thumbRuns' = cleaned
                              /\ thumbEff' = 0
                              /\ thumbsLoading' = FALSE
                         ELSE /\ HasFree(cleaned, ThumbSlots)
                              /\ LET s == FreeSlot(cleaned, ThumbSlots)
                                 IN  /\ thumbRuns' = [cleaned EXCEPT ![s] =
                                           [phase |-> "await", num |-> first, tp |-> tp,
                                            snap |-> thumbnails, doc |-> doc,
                                            cancelled |-> FALSE, destroyed |-> FALSE]]
                                     /\ thumbEff' = s
                              /\ thumbsLoading' = TRUE

ThumbAdvanceKeepsLoading(s) ==
    LET r == thumbRuns[s]
        nxt == NextThumb(r.num + 1, r.tp, r.snap, r.cancelled)
    IN  /\ thumbRuns' = IF nxt = 0 \/ nxt > r.tp THEN [thumbRuns EXCEPT ![s] = NoTask]
                        ELSE [thumbRuns EXCEPT ![s].num = nxt]
        /\ thumbEff' = IF (nxt = 0 \/ nxt > r.tp) /\ thumbEff = s THEN 0 ELSE thumbEff
        /\ UNCHANGED thumbsLoading

\* the loop of slot s goes on after page num was dealt with
ThumbAdvance(s) ==
    LET r == thumbRuns[s]
        nxt == NextThumb(r.num + 1, r.tp, r.snap, r.cancelled)
    IN  /\ thumbRuns' = IF nxt = 0 \/ nxt > r.tp THEN [thumbRuns EXCEPT ![s] = NoTask]
                        ELSE [thumbRuns EXCEPT ![s].num = nxt]
        /\ thumbEff' = IF (nxt = 0 \/ nxt > r.tp) /\ thumbEff = s THEN 0 ELSE thumbEff
        /\ thumbsLoading' = IF nxt > r.tp /\ ~r.cancelled THEN FALSE
                            ELSE thumbsLoading

SetThumbEvicts(prev, num, dataUrl) ==
    [n \in DOMAIN prev |-> IF n = num THEN dataUrl ELSE 0]

\* lines 156-159: the updater of setThumbnails; the data URL is stood for by the
\* document it is a picture of
SetThumb(prev, num, dataUrl) ==
    IF prev[num] # 0 THEN prev ELSE [prev EXCEPT ![num] = dataUrl]

\* lines 153-159: renderThumbnail(num) resolves with a data URL
ThumbRendered(s) ==
    /\ thumbRuns[s].phase = "await"
    /\ ~thumbRuns[s].destroyed
    /\ IF thumbRuns[s].cancelled
       THEN /\ thumbRuns' = [thumbRuns EXCEPT ![s] = NoTask]
            /\ thumbEff' = IF thumbEff = s THEN 0 ELSE thumbEff
            /\ UNCHANGED <<thumbnails, thumbsLoading>>
       ELSE /\ thumbnails' = SetThumb(thumbnails, thumbRuns[s].num, thumbRuns[s].doc)
            /\ ThumbAdvance(s)
    /\ UNCHANGED <<homeVars, docVars, navVars, overviewOpen, editVars, loadVars, renderVars,
                   thumbDeps, loadingPage, error, canvasSize, editorError, surface, saves,
                   needCommit, workspaceVars>>

ThumbSkippedAborts(s) ==
    /\ thumbRuns[s].phase = "await"
    /\ thumbRuns' = [thumbRuns EXCEPT ![s] = NoTask]
    /\ thumbEff' = IF thumbEff = s THEN 0 ELSE thumbEff
    /\ UNCHANGED <<homeVars, docVars, navVars, viewVars, editVars, loadVars, renderVars,
                   thumbDeps, loadingPage, error, canvasSize, editorError, surface, saves,
                   needCommit, workspaceVars>>

\* lines 155, 160-162: renderThumbnail(num) resolves with '' or rejects (always so
\* once the document is destroyed); the page is skipped
ThumbSkipped(s) ==
    /\ thumbRuns[s].phase = "await"
    /\ ThumbAdvance(s)
    /\ UNCHANGED <<homeVars, docVars, navVars, overviewOpen, thumbnails, editVars, loadVars,
                   renderVars, thumbDeps, loadingPage, error, canvasSize, editorError,
                   surface, saves, needCommit, workspaceVars>>

\* the render of state updates queued outside an event handler commits and its
\* effects run
Commit ==
    /\ needCommit
    /\ needCommit' = FALSE
    /\ RunRenderEffect(pdfDoc, pageNum, scale)
    /\ RunThumbEffect(overviewOpen, pdfDoc, totalPages)
    /\ UNCHANGED <<homeVars, docVars, navVars, overviewOpen, thumbnails, editVars, loadVars,
                   error, canvasSize, editorError, surface, saves, workspaceVars>>

\* ---------------------------------------------------------------- toolbar

canPrev == pageNum > 1
canNext == pageNum < totalPages

\* a click that sets the page number, with the commit it causes
SetPageNum(n) ==
    /\ pageNum' = n
    /\ RunRenderEffect(pdfDoc, n, scale)
    /\ UNCHANGED <<homeVars, docVars, scale, viewVars, editVars, loadVars, thumbVars, error,
                   canvasSize, editorError, surface, saves, needCommit, workspaceVars>>

SetScale(sc) ==
    /\ scale' = sc
    /\ RunRenderEffect(pdfDoc, pageNum, sc)
    /\ UNCHANGED <<homeVars, docVars, pageNum, viewVars, editVars, loadVars, thumbVars, error,
                   canvasSize, editorError, surface, saves, needCommit, workspaceVars>>

\* lines 361-368
PrevPage ==
    /\ mounted /\ ~needCommit
    /\ ~(~canPrev \/ loadingDoc)
    /\ SetPageNum(Max(1, pageNum - 1))

\* lines 372-379
NextPage ==
    /\ mounted /\ ~needCommit
    /\ ~(~canNext \/ loadingDoc)
    /\ SetPageNum(Min(totalPages, pageNum + 1))

ZoomOutWhileLoading ==
    /\ mounted /\ ~needCommit
    /\ ~(scale <= MIN_SCALE)
    /\ SetScale(Max(MIN_SCALE, scale - SCALE_STEP))

\* lines 380-387
ZoomOut ==
    /\ mounted /\ ~needCommit
    /\ ~(scale <= MIN_SCALE \/ loadingDoc)
    /\ SetScale(Max(MIN_SCALE, scale - SCALE_STEP))

\* lines 389-396
ZoomIn ==
    /\ mounted /\ ~needCommit
    /\ ~(scale >= MAX_SCALE \/ loadingDoc)
    /\ SetScale(Min(MAX_SCALE, scale + SCALE_STEP))

\* ---------------------------------------------------------------- annotations

\* lines 68-71
pageAnnotations == SelectSeq(annotations, LAMBDA item : item.page = pageNum)
\* line 232
hasPendingAnnotations == Len(annotations) > 0

IdsOf(seq) == {seq[i].id : i \in 1 .. Len(seq)}
\* ids the pending list or the closure of a pending save still holds
UsedIds == IdsOf(annotations) \cup UNION {IdsOf(saves[s].anns) : s \in Live(saves, SaveSlots)}
\* lines 17-22 makeAnnotationId: a token no annotation has
makeAnnotationId == CHOOSE n \in 1 .. (Cardinality(UsedIds) + 1) : n \notin UsedIds

\* lines 241-244: the prompt was dismissed, or its text is blank once trimmed
BlankTextNever(lines) == FALSE
BlankText(lines) == lines = 0

\* lines 236-265 handleLayerClick: a click at (px, py) of the layer (hundredths of
\* its width and height, lines 248-250), the prompt answered with a text of
\* `lines` lines (0: dismissed or blank, lines 241-244), font size cell sz
LayerClick(px, py, lines, sz) ==
    /\ mounted /\ ~needCommit
    /\ ~(~editMode \/ loadingDoc \/ loadingPage \/ activeDocSaveLoading)
    /\ canvasSize # 0
    /\ Len(annotations) < MaxAnnotations
    /\ IF BlankText(lines)
       THEN UNCHANGED <<activeDocSaveError, editorError, annotations>>
       ELSE /\ activeDocSaveError' = ""
            /\ editorError' = ""
            /\ annotations' = Append(annotations,
                   [id |-> makeAnnotationId, page |-> pageNum,
                    x |-> clamp(px, 0, 100), y |-> clamp(py, 0, 100),
                    lines |-> lines, size |-> clamp(sz, MIN_FONT_SIZE, MAX_FONT_SIZE)])
    /\ UNCHANGED <<activeDoc, activeDocFileVersion, activeDocSaveLoading, docVars,
                   navVars, viewVars, editMode, loadVars, thumbVars, renderVars, loadingPage, error,
                   canvasSize, surface, saves, needCommit, workspaceVars>>

\* line 268: prev.filter((item) => item.id !== annotationId)
WithoutId(prev, annotationId) == SelectSeq(prev, LAMBDA item : item.id # annotationId)

\* lines 267-269 removeAnnotation, reached through lines 544-548 (edit mode, confirmed)
RemoveAnnotation(annotationId) ==
    /\ mounted /\ ~needCommit
    /\ editMode
    /\ \E i \in 1 .. Len(annotations) :
           annotations[i].id = annotationId /\ annotations[i].page = pageNum
    /\ annotations' = WithoutId(annotations, annotationId)
    /\ UNCHANGED <<homeVars, docVars, navVars, viewVars, editMode, loadVars, thumbVars, renderVars,
                   loadingPage, error, canvasSize, editorError, surface, saves, needCommit,
                   workspaceVars>>

FirstIndexOnPage(seq, page) ==
    LET on == {i \in 1 .. Len(seq) : seq[i].page = page}
    IN  IF on = {} THEN 0 ELSE CHOOSE i \in on : \A j \in on : i <= j

\* lines 273-279: the loop from the end of the list; 0 stands for -1
LastIndexOnPage(seq, page) ==
    LET on == {i \in 1 .. Len(seq) : seq[i].page = page}
    IN  IF on = {} THEN 0 ELSE CHOOSE i \in on : \A j \in on : j <= i

\* lines 272-282: the updater of removeLastAnnotationOnPage
WithoutLastOnPage(prev, page) ==
    LET removeIndex == LastIndexOnPage(prev, page)
    IN  IF removeIndex = 0 THEN prev
        ELSE [i \in 1 .. (Len(prev) - 1) |->
                 IF i < removeIndex THEN prev[i] ELSE prev[i + 1]]

\* lines 271-283 removeLastAnnotationOnPage, reached through lines 422-429

RemoveLastAnnotationOnPage ==
    /\ mounted /\ ~needCommit
    /\ ~(Len(pageAnnotations) = 0 \/ activeDocSaveLoading)
    /\ annotations' = WithoutLastOnPage(annotations, pageNum)
    /\ UNCHANGED <<homeVars, docVars, navVars, viewVars, editMode, loadVars, thumbVars, renderVars,
                   loadingPage, error, canvasSize, editorError, surface, saves, needCommit,
                   workspaceVars>>

\* lines 430-437
ClearAnnotations ==
    /\ mounted /\ ~needCommit
    /\ ~(~hasPendingAnnotations \/ activeDocSaveLoading)
    /\ annotations' = << >>
    /\ UNCHANGED <<homeVars, docVars, navVars, viewVars, editMode, loadVars, thumbVars, renderVars,
                   loadingPage, error, canvasSize, editorError, surface, saves, needCommit,
                   workspaceVars>>

ToggleEditModeDiscards ==
    /\ mounted /\ ~needCommit
    /\ ~(loadingDoc \/ activeDocSaveLoading)
    /\ editMode' = ~editMode
    /\ annotations' = IF editMode THEN << >> ELSE annotations
    /\ activeDocSaveError' = ""
    /\ editorError' = ""
    /\ UNCHANGED <<activeDoc, activeDocFileVersion, activeDocSaveLoading, docVars,
                   navVars, viewVars, loadVars, thumbVars, renderVars, loadingPage, error,
                   canvasSize, surface, saves, needCommit, workspaceVars>>

\* lines 410-421
ToggleEditMode ==
    /\ mounted /\ ~needCommit
    /\ ~(loadingDoc \/ activeDocSaveLoading)
    /\ editMode' = ~editMode
    /\ activeDocSaveError' = ""
    /\ editorError' = ""
    /\ UNCHANGED <<activeDoc, activeDocFileVersion, activeDocSaveLoading, docVars,
                   navVars, viewVars, annotations, loadVars, thumbVars, renderVars, loadingPage, error,
                   canvasSize, surface, saves, needCommit, workspaceVars>>

\* ---------------------------------------------------------------- save pipeline

PageMissingNever(page, np) == FALSE

\* lines 305-306: pages[annotation.page - 1] is undefined
PageMissing(page, np) == ~(page - 1 \in 0 .. (np - 1))

BelowPageNever(y) == FALSE

\* line 320: `if (y < 0) return`
BelowPage(y) == y < 0

\* lines 308-327: the drawText calls one annotation of a page of the given size
\* causes: line index, x and y in hundredths of a point
DrawCalls(annotation, size) ==
    LET baseX == clamp(annotation.x, 0, 100) * size.width
        baseY == 100 * size.height - clamp(annotation.y, 0, 100) * size.height
        lineHeight == clamp(annotation.size, MIN_FONT_SIZE, MAX_FONT_SIZE) + 2
    IN  {[line |-> lineIndex, x |-> baseX, y |-> baseY - lineIndex * lineHeight * 100] :
            lineIndex \in {i \in 0 .. (annotation.lines - 1) :
                              ~BelowPage(baseY - i * lineHeight * 100)}}

\* lines 315-327: the lines of one annotation, drawn from baseY downwards; the
\* number of drawText calls.  Positions are in hundredths of a point.
RECURSIVE DrawLines(_, _, _, _)
DrawLines(baseY, lineHeight, lines, lineIndex) ==
    IF lineIndex >= lines THEN 0
    ELSE LET y == baseY - lineIndex * lineHeight * 100
         IN  (IF BelowPage(y) THEN 0 ELSE 1) + DrawLines(baseY, lineHeight, lines, lineIndex + 1)

\* lines 304-328: annotations.forEach over a fetched file of np pages of height h
RECURSIVE StampAll(_, _, _, _)
StampAll(anns, np, h, i) ==
    IF i > Len(anns) THEN 0
    ELSE LET a == anns[i]
             baseY == 100 * h - clamp(a.y, 0, 100) * h
             drawSize == clamp(a.size, MIN_FONT_SIZE, MAX_FONT_SIZE)
             here == IF PageMissing(a.page, np) THEN 0
                     ELSE DrawLines(baseY, drawSize + 2, a.lines, 0)
         IN  here + StampAll(anns, np, h, i + 1)

NothingToSaveNever(anns) == FALSE

\* lines 287-290: the guard of saveEditedPdf
NothingToSave(anns) == Len(anns) = 0

\* lines 285-296 saveEditedPdf up to its first await
SaveEditedPdf ==
    /\ mounted /\ ~needCommit
    /\ IF NothingToSave(annotations)
       THEN /\ editorError' = "nothing"
            /\ UNCHANGED <<activeDocSaveError, saves>>
       ELSE /\ HasFree(saves, SaveSlots)
            /\ activeDocSaveError' = ""
            /\ editorError' = ""
            /\ saves' = [saves EXCEPT ![FreeSlot(saves, SaveSlots)] =
                   [phase |-> "fetch", anns |-> annotations, doc |-> activeDoc,
                    gone |-> FALSE, np |-> 0, h |-> 0, draws |-> 0]]
    /\ UNCHANGED <<activeDoc, activeDocFileVersion, activeDocSaveLoading, docVars,
                   navVars, viewVars, editVars, loadVars, thumbVars, renderVars, loadingPage, error,
                   canvasSize, surface, needCommit, workspaceVars>>

\* lines 463-470: the save button
ClickSave ==
    /\ ~(~hasPendingAnnotations \/ activeDocSaveLoading)
    /\ SaveEditedPdf

\* saveEditedPdf called although the button is disabled for want of annotations
CallSaveWithNothing ==
    /\ ~hasPendingAnnotations
    /\ SaveEditedPdf

SaveCatchSilent(s) == UNCHANGED editorError

\* lines 334-337: the catch of saveEditedPdf
SaveCatch(s) ==
    editorError' = IF saves[s].gone THEN editorError ELSE "fail"

\* lines 296-301, 330: the re-fetch answers not ok, or the bytes do not parse, or
\* the edited document does not serialize
SaveSourceFailed(s) ==
    /\ saves[s].phase = "fetch"
    /\ saves' = [saves EXCEPT ![s] = NoTask]
    /\ SaveCatch(s)
    /\ UNCHANGED <<homeVars, docVars, navVars, viewVars, editVars, loadVars, thumbVars, renderVars,
                   loadingPage, error, canvasSize, surface, needCommit, workspaceVars>>

\* lines 296-331 and Home.jsx 975-979: the source is fetched again and parsed (np
\* pages of height h), the annotations of the closure are stamped, the bytes are
\* serialized and handed to onSaveEditedPdf, which starts the PUT
SaveStamped(s, np, h) ==
    /\ saves[s].phase = "fetch"
    /\ saves' = [saves EXCEPT ![s].phase = "persist",
                              ![s].np = np,
                              ![s].h = h,
                              ![s].draws = StampAll(saves[s].anns, np, h, 1)]
    /\ activeDocSaveLoading' = TRUE
    /\ activeDocSaveError' = ""
    /\ UNCHANGED <<activeDoc, activeDocFileVersion, docVars, navVars, viewVars,
                   editVars, loadVars, thumbVars, renderVars, loadingPage, error, canvasSize,
                   editorError, surface, needCommit, workspaceVars>>

AfterPersistAlways(resolved) == annotations' = << >> /\ editMode' = FALSE

\* lines 331-333: what saveEditedPdf does to the pending list and the edit mode once
\* `await onSaveEditedPdf(...)` has settled
AfterPersist(resolved) ==
    IF resolved
    THEN annotations' = << >> /\ editMode' = FALSE
    ELSE UNCHANGED <<annotations, editMode>>

\* Home.jsx 981-999, 1004-1006 and lines 332-333: the PUT succeeds.  The file
\* version becomes Date.now(), whatever document is active by now; a mounted viewer
\* gets a new src and its load effect runs again
PersistResolved(s) ==
    /\ saves[s].phase = "persist"
    /\ Now <= MaxVersion
    /\ activeDocFileVersion' = Now
    /\ activeDocSaveLoading' = FALSE
    /\ UNCHANGED <<activeDoc, activeDocSaveError, workspaceVars>>
    /\ saves' = [saves EXCEPT ![s] = NoTask]
    /\ IF mounted
       THEN /\ saves[s].gone \/ AfterPersist(TRUE)
            /\ LoadEffect(Now, FALSE)     \* resets the list and the edit mode too
       ELSE UNCHANGED <<docVars, navVars, viewVars, editVars, loadVars, thumbVars, renderVars,
                        loadingPage, error, canvasSize, editorError, surface, needCommit>>

\* Home.jsx 1000-1006 and lines 334-337: the PUT fails
PersistRejected(s) ==
    /\ saves[s].phase = "persist"
    /\ activeDocSaveError' = "err"
    /\ activeDocSaveLoading' = FALSE
    /\ saves' = [saves EXCEPT ![s] = NoTask]
    /\ IF saves[s].gone THEN UNCHANGED <<annotations, editMode>> ELSE AfterPersist(FALSE)
    /\ SaveCatch(s)
    /\ UNCHANGED <<activeDoc, activeDocFileVersion, docVars, navVars, viewVars,
                   loadVars, thumbVars, renderVars, loadingPage, error, canvasSize, surface,
                   needCommit, workspaceVars>>


\* lines 563-567: the one message of the edit bar, `saveError || editorError`
SaveErrorShown == IF activeDocSaveError # "" THEN activeDocSaveError ELSE editorError

\* lines 397-404
ToggleOverview ==
    /\ mounted /\ ~needCommit
    /\ ~(loadingDoc \/ totalPages = 0)
    /\ overviewOpen' = ~overviewOpen
    /\ RunThumbEffect(~overviewOpen, pdfDoc, totalPages)
    /\ UNCHANGED <<homeVars, docVars, navVars, thumbnails, editVars, loadVars, renderVars,
                   loadingPage, error, canvasSize, editorError, surface, saves, needCommit,
                   workspaceVars>>

\* lines 485-491: a click on the thumbnail of page num
ThumbClick(num) ==
    /\ mounted /\ ~needCommit
    /\ overviewOpen
    /\ num \in 1 .. totalPages
    /\ SetPageNum(num)

\* ---------------------------------------------------------------- lib/workspaces.js

\* Account names are strings of at most MaxName characters, a blank or a letter.
MaxName == 1
Chars == {" ", "a"}
AccountNames == UNION {[1 .. n -> Chars] : n \in 0 .. MaxName}

RECURSIVE TrimStart(_)
TrimStart(s) == IF s # << >> /\ Head(s) = " " THEN TrimStart(Tail(s)) ELSE s
RECURSIVE TrimEnd(_)
TrimEnd(s) ==
    IF s # << >> /\ s[Len(s)] = " " THEN TrimEnd(SubSeq(s, 1, Len(s) - 1)) ELSE s

\* line 3: String(value || '').trim()
normalizeName(value) == TrimEnd(TrimStart(value))

\* lines 5-8; the key '__guest__' is no name of AccountNames
keyForAccount(accountName) ==
    LET name == normalizeName(accountName)
    IN  IF name # << >> THEN name ELSE <<"__guest__">>

AccountKeys == {keyForAccount(n) : n \in AccountNames}

\* Workspace ids are 1 .. MaxIds.  An item of a workspace list is -1 for null, 0 for
\* an object whose id is missing or falsy, and else the id of the object; a list
\* has at most MaxList items.
MaxIds == 2
MaxList == 2
Ids == 1 .. MaxIds
Items == -1 .. MaxIds
Lists == UNION {[1 .. n -> Items] : n \in 0 .. MaxList}

\* The values an entry of the store, or the state handed to
\* persistWorkspaceState, can be: undefined, a value that is no object (null, a
\* number, a string), or an object, whose workspaces are an array or not and whose
\* activeWorkspaceId is an id or (0) something else.
Undefined ==
    [type |-> "undefined", isArray |-> FALSE, workspaces |-> << >>, activeWorkspaceId |-> 0]
Scalar ==
    [type |-> "scalar", isArray |-> FALSE, workspaces |-> << >>, activeWorkspaceId |-> 0]
Entries ==
    {Undefined, Scalar}
        \cup [type : {"object"}, isArray : {FALSE}, workspaces : {<< >>},
              activeWorkspaceId : {0}]
        \cup [type : {"object"}, isArray : {TRUE}, workspaces : Lists,
              activeWorkspaceId : 0 .. MaxIds]

\* what normalizeWorkspaceEntry gives: null, a state, or a TypeError
NullResult == [tag |-> "null", activeWorkspaceId |-> 0, workspaces |-> << >>]
Thrown == [tag |-> "throw", activeWorkspaceId |-> 0, workspaces |-> << >>]
State(active, list) == [tag |-> "state", activeWorkspaceId |-> active, workspaces |-> list]

\* line 16: overrides.id || `ws-${Date.now()}-${randomSuffix()}`; gen is the id
\* the clock and Math.random() give
createWorkspace(overrides, gen) == IF overrides > 0 THEN overrides ELSE gen

\* line 47: filter((item, idx, arr) => arr.findIndex((row) => row.id === item.id) === idx)
RECURSIVE FirstOccurrences(_, _)
FirstOccurrences(arr, idx) ==
    IF idx > Len(arr) THEN << >>
    ELSE IF \E j \in 1 .. idx - 1 : arr[j] = arr[idx]
         THEN FirstOccurrences(arr, idx + 1)
         ELSE <<arr[idx]>> \o FirstOccurrences(arr, idx + 1)

\* lines 42-53; gens[i] is the id generated for item i.  createWorkspace(accountName,
\* null) reads overrides.id of null: the default parameter stands in for undefined only
normalizeWorkspaceEntry(entry, gens) ==
    IF entry.type # "object" THEN NullResult
    ELSE LET list == IF entry.isArray THEN entry.workspaces ELSE << >>
         IN  IF \E i \in 1 .. Len(list) : list[i] = -1 THEN Thrown
             ELSE LET created == [i \in 1 .. Len(list) |-> createWorkspace(list[i], gens[i])]
                      workspaces == FirstOccurrences(created, 1)
                  IN  IF workspaces = << >> THEN NullResult
                      ELSE State(IF \E i \in 1 .. Len(workspaces) :
                                        workspaces[i] = entry.activeWorkspaceId
                                 THEN entry.activeWorkspaceId
                                 ELSE workspaces[1],
                                 workspaces)

\* lines 55-58
createDefaultWorkspaceState(gens) == State(gens[1], <<gens[1]>>)

\* The item of localStorage: missing, text that is no JSON, JSON of a value that is
\* no object, JSON of an array, or JSON of an object with an entry per key.
NoEntries == [k \in AccountKeys |-> Undefined]
NoItem == [type |-> "missing", entries |-> NoEntries]
NotCalled == [key |-> << >>, tag |-> "none", activeWorkspaceId |-> 0, workspaces |-> << >>]

\* lines 29-36
loadStore ==
    IF localStorage.type \in {"array", "object"} THEN localStorage
    ELSE [type |-> "object", entries |-> NoEntries]

\* a state as JSON.stringify writes it and JSON.parse reads it
AsEntry(state) ==
    [type |-> "object", isArray |-> TRUE, workspaces |-> state.workspaces,
     activeWorkspaceId |-> state.activeWorkspaceId]

\* lines 38-40: JSON.stringify of an array writes its elements and none of the
\* properties set on it
persistStore(store) ==
    localStorage' = IF store.type = "array" THEN [store EXCEPT !.entries = NoEntries]
                    ELSE store

Returns(key, state) ==
    returned' = [key |-> key, tag |-> state.tag,
                 activeWorkspaceId |-> state.activeWorkspaceId,
                 workspaces |-> state.workspaces]

\* lines 60-74
loadWorkspaceState(accountName, gens) ==
    LET store == loadStore
        accountKey == keyForAccount(accountName)
        normalized == normalizeWorkspaceEntry(store.entries[accountKey], gens)
    IN  /\ IF normalized.tag = "throw"
           THEN UNCHANGED localStorage /\ Returns(accountKey, Thrown)
           ELSE LET result == IF normalized.tag = "state" THEN normalized
                              ELSE createDefaultWorkspaceState(gens)
                IN  /\ persistStore([store EXCEPT !.entries[accountKey] = AsEntry(result)])
                    /\ Returns(accountKey, result)
        /\ UNCHANGED viewerVars

\* lines 76-83
persistWorkspaceState(accountName, state, gens) ==
    LET accountKey == keyForAccount(accountName)
        store == loadStore
        normalized == normalizeWorkspaceEntry(state, gens)
    IN  /\ IF normalized.tag = "throw"
           THEN UNCHANGED localStorage /\ Returns(accountKey, Thrown)
           ELSE LET result == IF normalized.tag = "state" THEN normalized
                              ELSE createDefaultWorkspaceState(gens)
                IN  /\ persistStore([store EXCEPT !.entries[accountKey] = AsEntry(result)])
                    /\ Returns(accountKey, result)
        /\ UNCHANGED viewerVars

\* ---------------------------------------------------------------- specifications

InitViewer ==
    /\ activeDoc = 0 /\ activeDocFileVersion = 0
    /\ activeDocSaveLoading = FALSE /\ activeDocSaveError = ""
    /\ pdfDoc = 0 /\ numPages = 0 /\ pageNum = 1 /\ scale = DEFAULT_SCALE
    /\ loadingDoc = TRUE /\ loadingPage = FALSE /\ error = "" /\ canvasSize = 0
    /\ overviewOpen = FALSE /\ thumbnails = NoThumbs /\ thumbsLoading = FALSE
    /\ editMode = FALSE /\ annotations = << >> /\ editorError = ""
    /\ loadSrc = 0 /\ loadState = "none" /\ oldLoads = {} /\ handles = {}
    /\ renders = [s \in RenderSlots |-> NoTask]
    /\ renderEff = 0 /\ renderTaskRef = 0
    /\ renderDeps = <<0, 1, DEFAULT_SCALE>>
    /\ thumbRuns = [s \in ThumbSlots |-> NoTask]
    /\ thumbEff = 0
    /\ thumbDeps = <<FALSE, 0, 0>>
    /\ surface = NoSurface
    /\ saves = [s \in SaveSlots |-> NoTask]
    /\ needCommit = FALSE

Init == InitViewer /\ localStorage = NoItem /\ returned = NotCalled

\* what the environment and the promises do in every specification
Settle ==
    \/ \E l \in PendingLoads, np \in 1 .. MaxPages : LoadResolved(l, np)
    \/ \E l \in PendingLoads : LoadRejected(l)
    \/ \E s \in RenderSlots : GetPageResolved(s)
    \/ \E s \in RenderSlots : GetPageRejected(s)
    \/ \E s \in RenderSlots : RenderCompleted(s)
    \/ \E s \in RenderSlots : RenderCancelled(s)
    \/ \E s \in RenderSlots : RenderFailed(s)
    \/ Commit

NoSaveLive == \A s \in SaveSlots : saves[s] = NoTask

\* The viewer as a page renderer: documents are opened and closed, pages are turned,
\* the zoom is changed (between the minimum and the default), and the source changes
\* under the renderer because one annotation is made and saved.
NextRender ==
    \/ \E throws \in BOOLEAN : OpenDocument(1, throws)
    \/ CloseDocumentPane
    \/ Settle
    \/ PrevPage
    \/ NextPage
    \/ ZoomOut
    \/ scale < DEFAULT_SCALE /\ ZoomIn
    \/ ~editMode /\ ToggleEditMode
    \/ annotations = << >> /\ LayerClick(50, 50, 1, DEFAULT_FONT_SIZE)
    \/ NoSaveLive /\ ClickSave
    \/ \E s \in SaveSlots : SaveStamped(s, MaxPages, 40)
    \/ \E s \in SaveSlots : PersistResolved(s)

SpecRender == Init /\ [][NextRender]_vars

\* what the promises of a viewer whose pages render without failure do
SettleView ==
    \/ \E l \in PendingLoads, np \in 1 .. MaxPages : LoadResolved(l, np)
    \/ \E s \in RenderSlots : GetPageResolved(s)
    \/ \E s \in RenderSlots : RenderCompleted(s)
    \/ \E s \in RenderSlots : RenderCancelled(s)
    \/ Commit

\* no renderPage() call is pending: the user waits for the page before the next click
PageShown == \A s \in RenderSlots : ~(renders[s].phase \in {"getPage", "rendering"})

\* every call that was superseded has returned and the page is shown
Quiet ==
    /\ PageShown
    /\ \A s \in Live(thumbRuns, ThumbSlots) :
          ~(thumbRuns[s].cancelled \/ thumbRuns[s].destroyed)

\* The viewer as a reader: pages are turned with the buttons and the thumbnails of
\* the overview, the zoom is lowered, an annotation is made, and the source changes
\* because it is saved.

NextView ==
    \/ ~mounted /\ OpenDocument(1, FALSE)
    \/ SettleView
    \/ Quiet /\ PrevPage
    \/ Quiet /\ NextPage
    \/ Quiet /\ scale = DEFAULT_SCALE /\ ZoomOut
    \/ PageShown /\ ToggleOverview
    \/ \E num \in 1 .. MaxPages : Quiet /\ ThumbClick(num)
    \/ \E s \in ThumbSlots : ThumbRendered(s)
    \/ \E s \in ThumbSlots : ThumbSkipped(s)
    \/ Quiet /\ ~editMode /\ ToggleEditMode
    \/ annotations = << >> /\ LayerClick(50, 50, 1, DEFAULT_FONT_SIZE)
    \/ Quiet /\ NoSaveLive /\ ClickSave
    \/ \E s \in SaveSlots : SaveStamped(s, MaxPages, 40)
    \/ \E s \in SaveSlots : PersistResolved(s)

SpecView == Init /\ [][NextView]_vars

\* The viewer as an editor: annotations are made on the first page and removed, a
\* save is started, and every step of it succeeds or fails.
NextSave ==
    \/ OpenDocument(1, FALSE)
    \/ SettleView
    \/ ToggleEditMode
    \/ LayerClick(50, 50, 1, DEFAULT_FONT_SIZE)
    \/ \E i \in 1 .. MaxAnnotations :
           i <= Len(annotations) /\ RemoveAnnotation(annotations[i].id)
    \/ RemoveLastAnnotationOnPage
    \/ ClearAnnotations
    \/ NoSaveLive /\ ClickSave
    \/ \E s \in SaveSlots : SaveSourceFailed(s)
    \/ \E s \in SaveSlots : SaveStamped(s, MaxPages, 40)
    \/ \E s \in SaveSlots : PersistResolved(s)
    \/ \E s \in SaveSlots : PersistRejected(s)

SpecSave == Init /\ [][NextSave]_vars

\* The save pipeline as a function of the pending list and of the file it fetches:
\* annotations of one or more lines are made in the middle and at the bottom of the
\* pages, and the file fetched by a save has any number of pages.
NextStamp ==
    \/ ~mounted /\ OpenDocument(1, FALSE)
    \/ SettleView
    \/ PageShown /\ NextPage
    \/ ~editMode /\ ToggleEditMode
    \/ \E py \in {50, 100}, lines \in 1 .. MaxLines :
           LayerClick(50, py, lines, DEFAULT_FONT_SIZE)
    \/ NoSaveLive /\ ClickSave
    \/ \E s \in SaveSlots, np \in 1 .. MaxPages, h \in PageHeights : SaveStamped(s, np, h)
    \/ \E s \in SaveSlots : PersistResolved(s)
    \/ \E s \in SaveSlots : PersistRejected(s)

SpecStamp == Init /\ [][NextStamp]_vars

\* the editor, with saveEditedPdf also called when the list is empty
NextCall ==
    \/ NextSave
    \/ CallSaveWithNothing

SpecCall == Init /\ [][NextCall]_vars

\* ---------------------------------------------------------------- page renderer

\* a renderPage() call that has not returned
Pending(s) == renders[s].phase \in {"getPage", "rendering"}

\* the run of the render effect that started call s was cleaned up, its render task
\* was cancelled, or its document was destroyed
Superseded(s) == renders[s].cancelled \/ renders[s].tcancel \/ renders[s].destroyed

\* call s can still write to the canvas: it will pass the guard of line 182, or its
\* render task is running
CanWrite(s) ==
    \/ renders[s].phase = "getPage" /\ ~renders[s].cancelled /\ ~renders[s].destroyed
    \/ renders[s].phase = "rendering" /\ ~renders[s].tcancel /\ ~renders[s].destroyed

\* C1: whenever the canvas is written (cleared and sized, or painted), the call that
\* takes the step is the renderPage() call of the current run of the render effect,
\* that run has not been cleaned up, and the page it writes is the page number now
\* requested; a call started for an earlier page and superseded never writes.
C1_OnlyFinalPagePaints ==
    [][(surface' # surface /\ surface'.st # "none") =>
          /\ renderEff # 0
          /\ renders'[renderEff] # renders[renderEff]
          /\ ~renders[renderEff].cancelled
          /\ renders[renderEff].page = pageNum
          /\ surface'.page = pageNum]_vars

\* C1: the page requested last is painted while a call started for another page and
\* superseded is still pending
C1_Witness ==
    /\ surface.st = "painted"
    /\ surface.page = pageNum
    /\ \E s \in RenderSlots :
          /\ Pending(s)
          /\ renders[s].cancelled
          /\ renders[s].page # pageNum

\* C2: at most one renderPage() call of a viewer can write to the canvas, in every
\* reachable state: a new run of the render effect starts its call only after the
\* cleanup of the previous run has flagged that call and cancelled its render task.
C2_AtMostOneRenderInFlight ==
    Cardinality({s \in RenderSlots : CanWrite(s)}) <= 1

\* C2: a call is in flight next to a call of an earlier run that is still pending
\* but was cancelled
C2_Witness ==
    \E s, t \in RenderSlots :
        /\ s # t
        /\ CanWrite(s)
        /\ renders[s].phase = "rendering"
        /\ Pending(t)
        /\ ~CanWrite(t)

\* C3 (as stated): a renderPage() call that was superseded never sets the error
\* message when it returns, whatever way its promise settles.
C3_SupersededRenderIsSilent ==
    [][\A s \in RenderSlots :
          (Pending(s) /\ Superseded(s) /\ ~Pending(s)') =>
              ~(error' = "render" /\ error # "render")]_vars

\* C4: when a loading task of a cleaned-up run of the load effect settles, resolved
\* or rejected, the document handle, the page count, the loading flag and the error
\* message of the viewer stay as they are.
C4_SupersededLoadDiscarded ==
    [][(oldLoads' # oldLoads /\ oldLoads' \subseteq oldLoads /\ loadSrc' = loadSrc) =>
          UNCHANGED <<pdfDoc, numPages, loadingDoc, error>>]_vars

\* C4: the load of the newer source has resolved and holds the document handle while
\* the superseded load is still pending
C4_Witness ==
    /\ oldLoads # {}
    /\ loadState = "resolved"
    /\ pdfDoc = loadSrc
    /\ ~loadingDoc


\* ---------------------------------------------------------------- save pipeline

\* C5: a call of saveEditedPdf with an empty pending list starts no save (no
\* re-fetch, no persistence callback: no slot of the pipeline is taken and the
\* save-loading flag stays), and the step that reports the nothing-to-save
\* message leaves the pending list, the edit mode and the pipeline as they are.
C5_EmptySaveStartsNothing ==
    [][Len(annotations) = 0 =>
          /\ \A s \in SaveSlots : saves[s] = NoTask => saves'[s] = NoTask
          /\ (editorError' = "nothing" /\ editorError # "nothing") =>
                 UNCHANGED <<saves, annotations, editMode, activeDocSaveLoading>>]_vars

\* C5: the nothing-to-save message is shown and no save is under way
C5_Witness ==
    /\ editorError = "nothing"
    /\ annotations = << >>
    /\ NoSaveLive
    /\ ~activeDocSaveLoading

\* C6: a step of a save (its start, the stamping, a failure, the settling of the
\* persistence callback) changes the pending list or the edit mode only if it is
\* the step in which the callback resolves: the save was awaiting the callback, the
\* file version is renewed, and the list is then empty and the edit mode off.
C6_ClearedOnlyAfterPersist ==
    [][\A s \in SaveSlots :
          (saves'[s].phase # saves[s].phase
             /\ (annotations' # annotations \/ editMode' # editMode)) =>
              /\ saves[s].phase = "persist"
              /\ saves'[s] = NoTask
              /\ activeDocFileVersion' # activeDocFileVersion
              /\ annotations' = << >>
              /\ ~editMode']_vars

\* C6: a save has just succeeded under the viewer: the list is empty, the edit mode
\* is off and the new version of the source is loading
C6_Witness ==
    /\ mounted
    /\ activeDocFileVersion = 2
    /\ loadSrc = 2
    /\ loadState = "pending"
    /\ needCommit
    /\ annotations = << >>
    /\ ~editMode
    /\ NoSaveLive

OutOfRange(anns, np) == {i \in 1 .. Len(anns) : ~(anns[i].page \in 1 .. np)}

LinesOnPage(a, h) ==
    Min(a.lines, ((100 * h - a.y * h) \div ((a.size + 2) * 100)) + 1)

RECURSIVE SumLinesOnPage(_, _, _, _)
SumLinesOnPage(anns, np, h, i) ==
    IF i > Len(anns) THEN 0
    ELSE (IF i \in OutOfRange(anns, np) THEN 0 ELSE LinesOnPage(anns[i], h))
         + SumLinesOnPage(anns, np, h, i + 1)

C11_AnnotationsOverTheirPage ==
    \A i \in 1 .. Len(pageAnnotations) :
        surface.st = "painted" => pageAnnotations[i].page = surface.page

\* ---------------------------------------------------------------- clicks on the layer

\* page.getViewport({scale: 1}) of the pages of a document (lines 183, 308)
PageView == [width |-> 30, height |-> 40]
\* what a click on the layer can be: the point of the page under the pointer (in
\* the units of PageView), the lines of the text typed into the prompt, and the
\* font size cell (lines 438-450 keep it in range)
Clicks ==
    { [px |-> 0, py |-> 0, lines |-> 0, size |-> DEFAULT_FONT_SIZE],
      [px |-> 0, py |-> 0, lines |-> 1, size |-> MIN_FONT_SIZE],
      [px |-> 15, py |-> 20, lines |-> 1, size |-> DEFAULT_FONT_SIZE],
      [px |-> PageView.width, py |-> PageView.height, lines |-> MaxLines,
       size |-> MAX_FONT_SIZE] }

\* lines 248-250: (event.clientX - rect.left) / rect.width, in hundredths
NormalizedUnscaled(offset, extent) == (100 * offset) \div (PageView.width * 10)
Normalized(offset, extent) == (100 * offset) \div extent

\* handleLayerClick for a click on the point (pointX, pointY) of the page: the
\* layer fills the stage, which lines 521-526 give the size of the viewport of the
\* last sized render, so the pointer is pointX * canvasSize from its left edge
LayerClickAt(pointX, pointY, lines, sz) ==
    /\ canvasSize # 0
    /\ LayerClick(Normalized(pointX * canvasSize, PageView.width * canvasSize),
                  Normalized(pointY * canvasSize, PageView.height * canvasSize),
                  lines, sz)

\* The viewer as an annotation editor: pages are turned, the zoom is changed around
\* the default, and clicks of every kind land on the layer.
NextClick ==
    \/ ~mounted /\ OpenDocument(1, FALSE)
    \/ SettleView
    \/ NextPage
    \/ PageShown /\ scale >= DEFAULT_SCALE /\ ZoomOut
    \/ PageShown /\ scale <= DEFAULT_SCALE /\ ZoomIn
    \/ ~editMode /\ ToggleEditMode
    \/ \E c \in Clicks : LayerClickAt(c.px, c.py, c.lines, c.size)
    \/ RemoveLastAnnotationOnPage

SpecClick == Init /\ [][NextClick]_vars

\* C12: every annotation of the pending list has x and y within [0, 1] (0 .. 100
\* hundredths), a font size within [8, 48], a page within 1 .. totalPages of the
\* loaded document, and a text that is not blank: a click whose prompt is
\* dismissed or left blank adds nothing.
C12_PendingAnnotationsWellFormed ==
    \A i \in 1 .. Len(annotations) :
        /\ annotations[i].x \in 0 .. 100
        /\ annotations[i].y \in 0 .. 100
        /\ annotations[i].size \in MIN_FONT_SIZE .. MAX_FONT_SIZE
        /\ annotations[i].page \in 1 .. totalPages
        /\ annotations[i].lines >= 1

\* annotations at both ends of every range are pending, one of them past page 1
C12_Witness ==
    /\ \E i \in 1 .. Len(annotations) :
           /\ annotations[i].x = 100 /\ annotations[i].y = 100
           /\ annotations[i].size = MAX_FONT_SIZE
           /\ annotations[i].page > 1
    /\ \E i \in 1 .. Len(annotations) :
           /\ annotations[i].x = 0 /\ annotations[i].y = 0
           /\ annotations[i].size = MIN_FONT_SIZE

\* lines 308-310: baseX and baseY, the point of the page an annotation is stamped
\* at, in hundredths of the units of PageView
PagePoint(annotation) ==
    [x |-> clamp(annotation.x, 0, 100) * PageView.width,
     y |-> 100 * PageView.height - clamp(annotation.y, 0, 100) * PageView.height]

\* C13: the point of the page a pending annotation will be stamped at is the point
\* that was clicked (measured from the bottom of the page), whatever the zoom was
\* at the click, and no change of the zoom alters a pending annotation.
C13_PointIndependentOfZoom ==
    [][/\ \A i \in 1 .. Len(annotations') :
              \E c \in Clicks :
                  /\ c.lines = annotations'[i].lines /\ c.size = annotations'[i].size
                  /\ PagePoint(annotations'[i]) =
                         [x |-> 100 * c.px, y |-> 100 * (PageView.height - c.py)]
       /\ (scale' # scale /\ loadSrc' = loadSrc) => annotations' = annotations]_vars

\* two annotations are pending, one at the middle of the page, and the page is
\* shown at a zoom that is not the default
C13_Witness ==
    /\ Len(annotations) = 2
    /\ \E i \in 1 .. 2 : annotations[i].x = 50 /\ annotations[i].y = 50
    /\ canvasSize = scale /\ scale # DEFAULT_SCALE
    /\ PageShown

\* ---------------------------------------------------------------- edit affordance

\* a pending saveEditedPdf() call of the mounted viewer begins / ends in this step
SaveStarts == \E s \in SaveSlots : saves[s] = NoTask /\ saves'[s] # NoTask
SaveSucceeds ==
    \E s \in SaveSlots :
        /\ saves[s] # NoTask /\ saves'[s] = NoTask
        /\ ~saves[s].gone
        /\ activeDocFileVersion' # activeDocFileVersion
SaveFails ==
    \E s \in SaveSlots :
        /\ saves[s] # NoTask /\ saves'[s] = NoTask
        /\ ~saves[s].gone
        /\ activeDocFileVersion' = activeDocFileVersion

\* C14 (as stated): a save is only ever started with edit mode on, a successful
\* save ends with edit mode off, and a failed save ends with edit mode on and the
\* pending annotations as they were.
C14_EditAffordanceMachine ==
    [][/\ SaveStarts => editMode
       /\ SaveSucceeds => ~editMode'
       /\ SaveFails => (editMode' /\ annotations' = annotations)]_vars

\* the step empties a pending list of several annotations (more than the undo of
\* lines 271-283 takes away), under the document that is loaded (no save went
\* through and no document was opened or closed)
DiscardsAll ==
    /\ Len(annotations) > 1 /\ annotations' = << >>
    /\ UNCHANGED <<activeDoc, loadSrc, pdfDoc>>
\* lines 544-548: the one removal window.confirm is asked for, that of one
\* annotation of the page shown, in edit mode
ConfirmedRemoval ==
    /\ editMode
    /\ \E i \in 1 .. Len(annotations) :
           /\ annotations[i].page = pageNum
           /\ annotations' = SelectSeq(annotations,
                                 LAMBDA item : item.id # annotations[i].id)

\* C15 (as stated): a user action that discards the pending annotations without
\* saving them takes effect only after the user has confirmed it.
C15_DiscardIsConfirmed ==
    [][DiscardsAll => ConfirmedRemoval]_vars

\* ---------------------------------------------------------------- document handles

SameSource ==
    /\ UNCHANGED <<activeDoc, loadSrc>>
    /\ ~(loadState # "pending" /\ loadState' = "pending")
Cached(cache) == {num \in DOMAIN cache : cache[num] # 0}

\* C17: while the source stays the same, an entry of the thumbnail cache is never
\* removed or replaced and at most one entry is added in a step; the cache is
\* emptied when the source changes, and only then.
C17_CacheOnlyGrows ==
    [][/\ SameSource =>
              /\ \A num \in Cached(thumbnails) : thumbnails'[num] = thumbnails[num]
              /\ Cardinality(Cached(thumbnails') \ Cached(thumbnails)) <= 1
       /\ ~SameSource => thumbnails' = NoThumbs]_vars

\* the cache holds a thumbnail of every page of a document of several pages
C17_Witness ==
    /\ totalPages > 1
    /\ Cached(thumbnails) = 1 .. totalPages

\* the renderAllThumbs() call of slot s has been stopped: the overview was closed or
\* the document changed, and the cleanup of its run has set `cancelled`
Stopped(s) == thumbRuns[s] # NoTask /\ thumbRuns[s].cancelled
\* the step adds an entry to the cache
AddsThumb == Cached(thumbnails') \ Cached(thumbnails) # {}
\* the step is the return of an awaited renderThumbnail() to slot s
ThumbReturns(s) ==
    /\ thumbRuns[s] # NoTask
    /\ thumbRuns'[s] # thumbRuns[s]
    /\ UNCHANGED <<thumbDeps, needCommit>>

\* C18: once the overview is closed or the document has changed, the generation
\* that was running adds no entry to the cache: an entry is only ever added by the
\* run of the open overview of the loaded document, for that document, and the
\* return of a thumbnail to a stopped run changes only that run.
C18_StoppedRunAddsNothing ==
    [][/\ AddsThumb =>
              \E s \in ThumbSlots :
                  /\ ThumbReturns(s) /\ ~Stopped(s)
                  /\ overviewOpen /\ thumbRuns[s].doc = pdfDoc
                  /\ thumbnails' = [thumbnails EXCEPT ![thumbRuns[s].num] = pdfDoc]
       /\ \A s \in ThumbSlots :
              (ThumbReturns(s) /\ Stopped(s)) =>
                  /\ thumbRuns'[s] = NoTask
                  /\ UNCHANGED <<thumbnails, thumbsLoading, error, editorError>>]_vars

\* a run was stopped while it awaited a thumbnail that can still complete, and the
\* cache holds an entry it added before
C18_Witness ==
    \E s \in ThumbSlots :
        /\ Stopped(s) /\ ~thumbRuns[s].destroyed
        /\ thumbRuns[s].num > 1
        /\ thumbnails[1] = thumbRuns[s].doc

\* C19: when the thumbnail of a page fails in a run that was not stopped and whose
\* document is still the loaded one, the page gets no entry, no error message is
\* set, and the run goes on to the next page that has no entry; when there is none
\* it ends and thumbsLoading is cleared.
C19_FailedThumbIsSkipped ==
    [][\A s \in ThumbSlots :
           (ThumbReturns(s) /\ ~Stopped(s) /\ ~thumbRuns[s].destroyed /\ ~AddsThumb) =>
               LET r == thumbRuns[s]
                   later == {num \in (r.num + 1) .. r.tp : thumbnails[num] = 0}
               IN  /\ thumbnails' = thumbnails
                   /\ thumbnails[r.num] = 0
                   /\ UNCHANGED <<error, editorError, activeDocSaveError>>
                   /\ IF later = {}
                      THEN thumbRuns'[s] = NoTask /\ ~thumbsLoading'
                      ELSE /\ thumbRuns'[s] # NoTask
                           /\ thumbRuns'[s].num \in later
                           /\ \A num \in later : thumbRuns'[s].num <= num]_vars

\* the thumbnail of page 1 has failed in the run of the open overview, which now
\* awaits that of page 2
C19_Witness ==
    \E s \in ThumbSlots :
        /\ thumbRuns[s] # NoTask
        /\ ~thumbRuns[s].cancelled /\ ~thumbRuns[s].destroyed
        /\ overviewOpen
        /\ thumbRuns[s].num = 2
        /\ thumbnails[1] = 0

\* ---------------------------------------------------------------- render failures

\* the renderPage() call of slot s, which nothing has cancelled, returns in this
\* step without having painted its page: getPage or the render task has failed
RenderFailure(s) ==
    /\ renders[s] # NoTask
    /\ ~(renders[s].cancelled \/ renders[s].tcancel \/ renders[s].destroyed)
    /\ renders'[s] = NoTask
    /\ UNCHANGED <<surface, renderDeps>>

\* C20 (as stated): a render that fails for another reason than cancellation sets
\* the error message, and a frame that had been painted before it is still on the
\* canvas.
C20_FailureKeepsFrame ==
    [][\A s \in RenderSlots :
           RenderFailure(s) => (error' = "render" /\ surface'.st # "erased")]_vars

\* ---------------------------------------------------------------- pending list

\* The viewer as an editor that is also read in: pages are turned, the zoom is
\* lowered, the overview is toggled and thumbnails are generated, annotations are
\* made and removed, and saves succeed and fail.
\* the page is shown, no superseded call is pending and no save is in flight: the
\* user waits for these before the next click
Calm == Quiet /\ NoSaveLive

NextFrame ==
    \/ ~mounted /\ OpenDocument(1, FALSE)
    \/ SettleView
    \/ Calm /\ hasPendingAnnotations /\ PrevPage
    \/ Calm /\ NextPage
    \/ ~editMode /\ ~hasPendingAnnotations /\ NextPage
    \/ Calm /\ hasPendingAnnotations /\ scale = DEFAULT_SCALE /\ ZoomOut
    \/ Calm /\ Len(annotations) = MaxAnnotations /\ ToggleOverview
    \/ \E s \in ThumbSlots : ThumbRendered(s)
    \/ Calm /\ ~overviewOpen /\ ToggleEditMode
    \/ Calm /\ ~overviewOpen /\ LayerClick(50, 50, 1, DEFAULT_FONT_SIZE)
    \/ \E i \in 1 .. MaxAnnotations :
           Calm /\ i <= Len(annotations) /\ RemoveAnnotation(annotations[i].id)
    \/ Calm /\ RemoveLastAnnotationOnPage
    \/ Calm /\ ClearAnnotations
    \/ Calm /\ ~overviewOpen /\ ClickSave
    \/ \E s \in SaveSlots : SaveSourceFailed(s)
    \/ \E s \in SaveSlots : SaveStamped(s, MaxPages, 40)
    \/ \E s \in SaveSlots : PersistResolved(s)
    \/ \E s \in SaveSlots : PersistRejected(s)

SpecFrame == Init /\ [][NextFrame]_vars

\* the list after the step is the list before it with one annotation appended,
\* made in edit mode on the page shown
AddedOne ==
    /\ editMode
    /\ Len(annotations') = Len(annotations) + 1
    /\ SubSeq(annotations', 1, Len(annotations)) = annotations
    /\ annotations'[Len(annotations')].page = pageNum
\* the list after the step is the list before it without one of its annotations
RemovedOne ==
    \E i \in 1 .. Len(annotations) :
        annotations' = SubSeq(annotations, 1, i - 1) \o
                       SubSeq(annotations, i + 1, Len(annotations))
\* what page navigation, zoom, overview, edit toggle, thumbnail generation and
\* the saves in flight touch
ViewCells == <<pageNum, scale, overviewOpen, editMode, thumbnails, thumbRuns, saves>>

\* C21: the pending list changes only by a click that appends one annotation in
\* edit mode, by the removal of one annotation, by being emptied (clear-all, a
\* successful save, a change of source); a step that turns the page, changes the
\* zoom, toggles the overview or the edit mode, generates a thumbnail or ends a
\* save in failure leaves it as it is; an annotation that stays keeps its fields.
C21_ListChangesOnlyByEdits ==
    [][/\ annotations' # annotations =>
              \/ AddedOne /\ UNCHANGED ViewCells
              \/ RemovedOne /\ UNCHANGED ViewCells
              \/ annotations' = << >> /\ (UNCHANGED ViewCells \/ ~SameSource)
       /\ SaveFails => annotations' = annotations
       /\ \A i \in 1 .. Len(annotations), j \in 1 .. Len(annotations') :
              annotations'[j].id = annotations[i].id => annotations'[j] = annotations[i]]_vars

\* a failed save has left two annotations pending, on a page other than the first,
\* with the overview open
C21_Witness ==
    /\ Len(annotations) > 1
    /\ editorError = "fail"
    /\ pageNum > 1
    /\ overviewOpen

\* seq without its element at index i
Drop(seq, i) == SubSeq(seq, 1, i - 1) \o SubSeq(seq, i + 1, Len(seq))

\* C22: for the pending list and every page, undo-last-on-page gives the list
\* without the last of its annotations of that page, the others kept in their
\* order, and the list itself when the page has none; for every id of the list,
\* remove-by-id gives the list without the annotation of that id, and for an id
\* the list does not hold, the list itself.
C22_RemovalsRemoveExactlyOne ==
    /\ \A page \in 1 .. MaxPages :
           LET result == WithoutLastOnPage(annotations, page)
           IN  IF \A i \in 1 .. Len(annotations) : annotations[i].page # page
               THEN result = annotations
               ELSE \E i \in 1 .. Len(annotations) :
                        /\ annotations[i].page = page
                        /\ \A j \in (i + 1) .. Len(annotations) : annotations[j].page # page
                        /\ result = Drop(annotations, i)
    /\ \A i \in 1 .. Len(annotations) :
           WithoutId(annotations, annotations[i].id) = Drop(annotations, i)
    /\ \A id \in (1 .. (MaxAnnotations + 1)) \ IdsOf(annotations) :
           WithoutId(annotations, id) = annotations

\* the list is full, its first annotation is of the page shown and its last is of
\* another page: the annotation undo takes away is not the last of the list
C22_Witness ==
    /\ Len(annotations) = MaxAnnotations
    /\ annotations[1].page = pageNum
    /\ annotations[Len(annotations)].page # pageNum
    /\ editMode

\* ---------------------------------------------------------------- stamping

\* H - y*H - i*(s+2) of the claim, in hundredths of a point
LineY(a, h, i) == 100 * h - a.y * h - i * (a.size + 2) * 100

\* C23: in a save that has stamped its annotations, every annotation whose page
\* exists is drawn line by line at (x*W, H - y*H - i*(s+2)), for exactly the
\* lines i for which that height is not negative; the lines drawn are the first
\* ones of the text, none is drawn twice, and their number is what the save drew.
C23_LinesDrawnWherePlaced ==
    \A s \in SaveSlots :
        saves[s].phase = "persist" =>
            \A k \in (1 .. Len(saves[s].anns)) \ OutOfRange(saves[s].anns, saves[s].np) :
                LET a == saves[s].anns[k]
                    calls == DrawCalls(a, [width |-> PageView.width, height |-> saves[s].h])
                    drawn == {c.line : c \in calls}
                IN  /\ \A c \in calls :
                           /\ c.x = a.x * PageView.width
                           /\ c.y = LineY(a, saves[s].h, c.line)
                           /\ c.y >= 0
                    /\ drawn = {i \in 0 .. (a.lines - 1) : LineY(a, saves[s].h, i) >= 0}
                    /\ \E j \in 0 .. a.lines : drawn = 0 .. (j - 1)
                    /\ Cardinality(calls) = Cardinality(drawn)
                    /\ StampAll(<<a>>, saves[s].np, saves[s].h, 1) = Cardinality(calls)

\* a save has stamped an annotation of several lines of which the last would lie
\* below the bottom edge of its page
C23_Witness ==
    \E s \in SaveSlots :
        /\ saves[s].phase = "persist"
        /\ \E k \in (1 .. Len(saves[s].anns)) \ OutOfRange(saves[s].anns, saves[s].np) :
               /\ saves[s].anns[k].lines > 1
               /\ LineY(saves[s].anns[k], saves[s].h, 0) >= 0
               /\ LineY(saves[s].anns[k], saves[s].h, saves[s].anns[k].lines - 1) < 0

\* ---------------------------------------------------------------- thumbnail tasks

\* C24 (as stated): no two renderThumbnail() calls for the same page of the same
\* document, neither of them ended by the destruction of the document, are pending
\* at the same time.
C24_OneTaskPerThumbnail ==
    \A s1 \in ThumbSlots, s2 \in ThumbSlots :
        (/\ s1 # s2
         /\ thumbRuns[s1] # NoTask /\ thumbRuns[s2] # NoTask
         /\ ~thumbRuns[s1].destroyed /\ ~thumbRuns[s2].destroyed
         /\ thumbRuns[s1].doc = thumbRuns[s2].doc)
            => thumbRuns[s1].num # thumbRuns[s2].num

\* ---------------------------------------------------------------- saves in flight

\* The editor with an impatient user: the zoom is lowered once, one annotation is
\* made, and the save button is clicked whenever it is enabled.
NextTwice ==
    \/ ~mounted /\ OpenDocument(1, FALSE)
    \/ SettleView
    \/ scale = DEFAULT_SCALE /\ ZoomOut
    \/ ~editMode /\ ToggleEditMode
    \/ annotations = << >> /\ LayerClick(50, 50, 1, DEFAULT_FONT_SIZE)
    \/ ClickSave
    \/ \E s \in SaveSlots : SaveSourceFailed(s)
    \/ \E s \in SaveSlots : SaveStamped(s, MaxPages, 40)
    \/ \E s \in SaveSlots : PersistResolved(s)
    \/ \E s \in SaveSlots : PersistRejected(s)

SpecTwice == Init /\ [][NextTwice]_vars

\* C25 (as stated): at most one saveEditedPdf() call of the viewer is pending, from
\* its start to its end, the phase before onSaveEditedPdf is called included.
C25_OneSaveInFlight ==
    Cardinality({s \in Live(saves, SaveSlots) : ~saves[s].gone}) <= 1

\* C26 (as stated): when a save of the viewer succeeds, the annotations it stamped
\* (those of its closure) are the pending annotations it clears: none was added
\* and none was removed while it was in flight.
C26_SavedIsWhatIsCleared ==
    [][\A s \in SaveSlots :
           (/\ saves[s].phase = "persist" /\ ~saves[s].gone
            /\ saves'[s] = NoTask
            /\ activeDocFileVersion' # activeDocFileVersion)
               => annotations = saves[s].anns]_vars

\* ---------------------------------------------------------------- two documents

\* ids of the documents of the workspace
DocIds == {1, 2}

\* The editor of a user who goes from one document to another while a save of the
\* first is in flight.
NextSwitch ==
    \/ \E d \in DocIds : activeDoc # d /\ OpenDocument(d, FALSE)
    \/ SettleView
    \/ ~editMode /\ ToggleEditMode
    \/ annotations = << >> /\ LayerClick(50, 50, 1, DEFAULT_FONT_SIZE)
    \/ NoSaveLive /\ ClickSave
    \/ \E s \in SaveSlots : SaveSourceFailed(s)
    \/ \E s \in SaveSlots : SaveStamped(s, MaxPages, 40)
    \/ \E s \in SaveSlots : PersistResolved(s)
    \/ \E s \in SaveSlots : PersistRejected(s)

SpecSwitch == Init /\ [][NextSwitch]_vars

\* C27 (as stated): when the save of a document ends, in success or in failure,
\* while another document is the active one, the file version of the active
\* document (and with it the source of its viewer and its pending annotations),
\* its save error and its record are left as they are.
C27_OtherDocumentUntouched ==
    [][\A s \in SaveSlots :
           (/\ saves[s] # NoTask /\ saves'[s] = NoTask
            /\ activeDoc # 0 /\ saves[s].doc # activeDoc)
               => UNCHANGED <<activeDoc, activeDocFileVersion, activeDocSaveError,
                              loadSrc, annotations>>]_vars

\* ---------------------------------------------------------------- loading flag

\* C28 (as stated): whenever no renderPage() call is pending, no commit is
\* outstanding and no load is under way, loadingPage is false: the 'rendering'
\* status does not stay set.
C28_IdleMeansNotLoading ==
    (/\ \A s \in RenderSlots : renders[s] = NoTask
     /\ ~needCommit
     /\ loadState # "pending")
        => ~loadingPage

\* ---------------------------------------------------------------- thumbnail progress

\* The overview of a reader: it is toggled, thumbnails are rendered, the thumbnail
\* of page 1 may fail, and the source changes because an annotation is saved.  A
\* renderThumbnail() call on a destroyed document always fails.
NextThumbs ==
    \/ ~mounted /\ OpenDocument(1, FALSE)
    \/ SettleView
    \/ ~overviewOpen /\ ~editMode /\ NextPage
    \/ PageShown /\ ToggleOverview
    \/ \E s \in ThumbSlots : ThumbRendered(s)
    \/ \E s \in ThumbSlots :
           /\ thumbRuns[s] # NoTask
           /\ thumbRuns[s].destroyed \/ thumbRuns[s].num = 1
           /\ ThumbSkipped(s)
    \/ Quiet /\ ~editMode /\ ToggleEditMode
    \/ annotations = << >> /\ LayerClick(50, 50, 1, DEFAULT_FONT_SIZE)
    \/ Quiet /\ NoSaveLive /\ ClickSave
    \/ \E s \in SaveSlots : SaveStamped(s, MaxPages, 40)
    \/ \E s \in SaveSlots : PersistResolved(s)

\* every renderThumbnail() call terminates: a run that awaits one gets its answer
ThumbsTerminate ==
    \A s \in ThumbSlots :
        WF_vars(\/ ThumbRendered(s)
                \/ thumbRuns[s] # NoTask /\ thumbRuns[s].destroyed /\ ThumbSkipped(s))

SpecThumbs == Init /\ [][NextThumbs]_vars /\ ThumbsTerminate

\* C29: while the overview of a loaded document generates thumbnails, it comes to
\* an end unless the overview is closed or the document changes: thumbsLoading
\* is false and every page whose thumbnail did not fail (every page but the
\* first) has an entry.
C29_GenerationFinishes ==
    (overviewOpen /\ thumbsLoading /\ pdfDoc # 0)
        ~> \/ ~overviewOpen
           \/ pdfDoc = 0
           \/ ~thumbsLoading /\ (2 .. totalPages) \subseteq Cached(thumbnails)

\* generation has finished with the overview open: the thumbnail of page 1 has
\* failed and every other page has its entry
C29_Witness ==
    /\ overviewOpen /\ ~thumbsLoading
    /\ totalPages > 1
    /\ Cached(thumbnails) = 2 .. totalPages

\* ---------------------------------------------------------------- workspace store

\* what localStorage can hold before the first call: nothing, text that does not
\* parse, a value that is no object, an array, or an object in which one key has
\* an entry of any shape
StoredValues ==
    [type : {"missing", "broken", "scalar", "array"}, entries : {NoEntries}]
        \cup {[type |-> "object", entries |-> [NoEntries EXCEPT ![k] = e]] :
                 k \in AccountKeys, e \in Entries}

InitWorkspaces == InitViewer /\ localStorage \in StoredValues /\ returned = NotCalled

GenIds == [1 .. MaxList -> Ids]

NextWorkspaces ==
    \/ \E n \in AccountNames, gens \in GenIds : loadWorkspaceState(n, gens)
    \/ \E n \in AccountNames, state \in Entries, gens \in GenIds :
           persistWorkspaceState(n, state, gens)

SpecWorkspaces == InitWorkspaces /\ [][NextWorkspaces]_vars

\* a stored entry is a state: it has a workspace, its ids are ids and pairwise
\* distinct, and its activeWorkspaceId is one of them
WellFormed(e) ==
    /\ e.type = "object" /\ e.isArray
    /\ Len(e.workspaces) >= 1
    /\ \A i \in 1 .. Len(e.workspaces) : e.workspaces[i] \in Ids
    /\ \A i, j \in 1 .. Len(e.workspaces) : i # j => e.workspaces[i] # e.workspaces[j]
    /\ \E i \in 1 .. Len(e.workspaces) : e.workspaces[i] = e.activeWorkspaceId

\* the entry a reader of the store finds under key k
StoredFor(k) == loadStore.entries[k]

\* C30 (as stated): after a call of loadWorkspaceState or persistWorkspaceState
\* for an account, a state is returned, it is the entry stored for the account,
\* and it has at least one workspace, pairwise distinct ids and an
\* activeWorkspaceId of its list; and a call changes no entry of another key.
C30_StoredStateWellFormed ==
    /\ [](returned.tag # "none" =>
              /\ returned.tag = "state"
              /\ WellFormed(StoredFor(returned.key))
              /\ StoredFor(returned.key).workspaces = returned.workspaces
              /\ StoredFor(returned.key).activeWorkspaceId = returned.activeWorkspaceId)
    /\ [][\A k \in AccountKeys :
              k # returned'.key =>
                  (IF localStorage'.type \in {"array", "object"}
                   THEN localStorage'.entries[k] ELSE Undefined) = StoredFor(k)]_vars

====
